---- MODULE Spec2Model ----
(***************************************************************************)
(* CamProV5 design layer: MotionParameters and MotionLaw of                *)
(* campro/models/movement_law.py.                                          *)
(*                                                                         *)
(* The model follows one MotionParameters object from its construction    *)
(* (__post_init__ and validate), through attribute assignments (the       *)
(* dataclass is not frozen), to the MotionLaw built on it and the four    *)
(* kinematic functions evaluated at single cam angles; the object written *)
(* to JSON or TOML text and read back; and the law analysed on a sample   *)
(* of angles, directly and inside MotionOptimizer.objective_function.     *)
(*                                                                         *)
(* Numbers.  Field values and cam angles are integers (degrees, mm, rpm). *)
(* The kinematic functions are evaluated where the segment-local progress *)
(* beta is a multiple of 1/12, so that sin(2*pi*beta) and cos(2*pi*beta)  *)
(* come from a table of thousandths.  A kinematic value is kept as the    *)
(* expression the code computes,                                           *)
(*    c0 + c * F(beta) * pi^p * dbeta_dtheta^k * (omega*deg_to_rad)^w,    *)
(* together with its mantissa m = c0 + c * F(beta) taken from the table;  *)
(* a division by a zero duration gives "nan" (numpy division) or "raise"  *)
(* (ZeroDivisionError of a Python float division).                        *)
(*                                                                         *)
(* Text.  to_json / to_toml write one token per field and from_json /      *)
(* from_toml read tokens back; a token is kept by its lexical form (a      *)
(* number with or without a '.', a bare word, a quoted string, a broken    *)
(* line), which is what json.loads and toml.loads decide on.               *)
(*                                                                         *)
(* Magnitudes.  analyze_kinematics compares maxima with limits, so there   *)
(* the values are turned into hundredths of mm/s, mm/s^2 and mm/s^3, with  *)
(* pi = 3.142 and pi^2 = 9.870.                                            *)
(***************************************************************************)
EXTENDS Integers, Sequences, FiniteSets, TLC

VARIABLES
    attempt,    \* the arguments of the last MotionParameters(...) call
    outcome,    \* "none", "ok", or the ValueError message of that call
    exists,     \* TRUE while the call has produced an object
    params,     \* the fields of that object
    validated,  \* the fields as they were when validate() returned
    assigned,   \* attribute assignments made on the object since
    law,        \* the MotionLaw built on the object
    out,        \* the last evaluation of the four kinematic functions
    prev,       \* the evaluation before it
    doc,        \* a JSON or TOML document: format and one token per key
    loaded,     \* what from_json / from_toml made of the document
    analysis,   \* the dictionary of the last analyze_kinematics call
    result,     \* the outcome of the last objective_function call
    run,        \* the outcome of an optimize call of a MotionOptimizer
    rerun,      \* the outcome of the same optimize call made once more
    pool        \* objective_function calls in progress on several threads

vars == <<attempt, outcome, exists, params, validated, assigned, law, out, prev,
          doc, loaded, analysis, result, run, rerun, pool>>

----------------------------------------------------------------------------
(* Input domains *)

BaseRadii == {-1, 0, 25}
Lifts     == {-1, 0, 10}
Rpms      == {-1, 0, 3000}
Durations == {-1, 0, 6, 12, 360}
CamInputs == {7, 180}

\* rise, dwell and fall durations passed to the constructor: every triple
\* over Durations, and the 90/45/90 profile
Segments == (Durations \X Durations \X Durations) \cup {<<90, 45, 90>>}

\* attribute assignments explored on one object
MaxAssign == 1

\* cam angles handed to the kinematic functions: 0 .. ThetaSpan, the segment
\* ends of the 90/45/90 profile, and angles outside [0, 360)
ThetaSpan == 24

Thetas == 0..ThetaSpan \cup {90, 135, 225} \cup {-354, 360, 366}

\* dataclass defaults of the three limits and of cam_duration
DefaultJerkLimit         == 1000
DefaultAccelerationLimit == 500
DefaultVelocityLimit     == 100
DefaultCamDuration       == 180

\* float('inf'): above every finite number of the model
Infinity == 1000 * 1000 * 1000

\* jerk limits a caller passes: the default, and no limit at all
JerkLimits == {DefaultJerkLimit, Infinity}

FieldNames == {"base_circle_radius", "max_lift", "cam_duration",
               "rise_duration", "dwell_duration", "fall_duration",
               "jerk_limit", "acceleration_limit", "velocity_limit", "rpm"}

NoParams == [base_circle_radius |-> 0, max_lift |-> 0, cam_duration |-> 0,
             rise_duration |-> 0, dwell_duration |-> 0, fall_duration |-> 0,
             jerk_limit |-> 0, acceleration_limit |-> 0, velocity_limit |-> 0,
             rpm |-> 0]

----------------------------------------------------------------------------
(* MotionParameters *)

SegmentSum(p) == p.rise_duration + p.dwell_duration + p.fall_duration

\* validate() with the 360 degree bound made strict
validate_strict(p) ==
    IF p.base_circle_radius <= 0 THEN "Base circle radius must be positive"
    ELSE IF p.max_lift <= 0 THEN "Maximum lift must be positive"
    ELSE IF p.rise_duration < 0 THEN "Rise duration must be non-negative"
    ELSE IF p.dwell_duration < 0 THEN "Dwell duration must be non-negative"
    ELSE IF p.fall_duration < 0 THEN "Fall duration must be non-negative"
    ELSE IF p.rpm <= 0 THEN "RPM must be positive"
    ELSE IF SegmentSum(p) >= 360 THEN "Total cam duration must not exceed 360 degrees"
    ELSE "ok"

\* validate(): "ok" or the message of the ValueError it raises
validate(p) ==
    IF p.base_circle_radius <= 0 THEN "Base circle radius must be positive"
    ELSE IF p.max_lift <= 0 THEN "Maximum lift must be positive"
    ELSE IF p.rise_duration < 0 THEN "Rise duration must be non-negative"
    ELSE IF p.dwell_duration < 0 THEN "Dwell duration must be non-negative"
    ELSE IF p.fall_duration < 0 THEN "Fall duration must be non-negative"
    ELSE IF p.rpm <= 0 THEN "RPM must be positive"
    ELSE IF SegmentSum(p) > 360 THEN "Total cam duration must not exceed 360 degrees"
    ELSE "ok"

\* __post_init__ that leaves the supplied cam_duration in place
post_init_keep(args) == args

\* __post_init__: the fields after cam_duration has been normalised
post_init(args) == [args EXCEPT !.cam_duration = SegmentSum(args)]

NoLaw == [st |-> "none", omega |-> 0, total_duration |-> 0, seen |-> NoParams]

Zero == [st |-> "num", m |-> 0, c0 |-> 0, c |-> 0, f |-> "zero",
         p |-> 0, k |-> 0, w |-> 0, d |-> 0]

NoOut == [done |-> FALSE, theta |-> 0, s |-> Zero, v |-> Zero, a |-> Zero, j |-> Zero]

\* a token of a document: the text to the right of a key
NoToken == [form |-> "absent", num |-> 0, word |-> ""]

\* a Python value read from a document
Missing == [kind |-> "absent", v |-> 0]

NoDoc == [fmt |-> "none", edited |-> FALSE, body |-> [k \in FieldNames |-> NoToken]]

NoLoaded == [st |-> "none", exc |-> "", prefix |-> "", stage |-> "", msg |-> "",
             field |-> "", obj |-> [k \in FieldNames |-> Missing]]

NoAnalysis ==
    [done |-> FALSE, st |-> "none", n |-> 0, nan |-> FALSE,
     theta |-> << >>, displacement |-> << >>, velocity |-> << >>,
     acceleration |-> << >>, jerk |-> << >>,
     max_velocity |-> 0, max_acceleration |-> 0, max_jerk |-> 0,
     rms_acceleration |-> 0, rms_jerk |-> 0,
     velocity_violation |-> FALSE, acceleration_violation |-> FALSE,
     jerk_violation |-> FALSE, parameters |-> NoParams]

NoResult ==
    [done |-> FALSE, st |-> "none", cause |-> "none", objective_type |-> "",
     value |-> 0, nan |-> FALSE, candidate |-> NoParams]

NoRun ==
    [phase |-> "idle", method |-> "", objective_type |-> "", bounds |-> << >>,
     box |-> << >>, x0 |-> << >>, entropy |-> 0, np |-> FALSE, objective |-> {},
     seed |-> 0, maxiter |-> 0, popsize |-> 0,
     evaluated |-> {}, reported |-> [success |-> FALSE, message |-> "", nit |-> 0],
     x |-> << >>, exc |-> "none",
     success |-> FALSE, message |-> "", iterations |-> 0, objective_value |-> 0,
     optimized_parameters |-> NoParams, original_parameters |-> NoParams,
     kinematic_analysis |-> NoAnalysis, base_analysis |-> NoAnalysis,
     improvement |-> [rms_acceleration_reduction |-> 0, max_jerk_reduction |-> 0,
                      nan |-> FALSE]]

\* the threads that evaluate the objective
Workers == {1, 2}

\* the local variables of one objective_function call
NoLocals == [candidate_params |-> NoParams, built |-> "none",
             analysis |-> NoAnalysis]

NoPool ==
    [pc |-> [w \in Workers |-> "idle"],
     x |-> [w \in Workers |-> << >>],
     objective_type |-> [w \in Workers |-> ""],
     locals |-> [w \in Workers |-> NoLocals],
     returned |-> [w \in Workers |-> 0],
     alone |-> [w \in Workers |-> 0]]

Init ==
    /\ attempt = NoParams
    /\ outcome = "none"
    /\ exists = FALSE
    /\ params = NoParams
    /\ validated = NoParams
    /\ assigned = 0
    /\ law = NoLaw
    /\ out = NoOut
    /\ prev = NoOut
    /\ doc = NoDoc
    /\ loaded = NoLoaded
    /\ analysis = NoAnalysis
    /\ result = NoResult
    /\ run = NoRun
    /\ rerun = NoRun
    /\ pool = NoPool

\* MotionParameters(...): __post_init__ normalises cam_duration and validates.
\* A behaviour follows the object of one constructor call.  SG are the
\* segment durations and JL, AL and VL the jerk, acceleration and velocity
\* limits the caller may pass.
ConstructFrom(SG, JL, AL, VL) ==
    /\ outcome = "none"
    /\ \E b \in BaseRadii, l \in Lifts, cd \in CamInputs,
          seg \in SG, n \in Rpms, jl \in JL, al \in AL, vl \in VL :
        LET args == [base_circle_radius |-> b, max_lift |-> l, cam_duration |-> cd,
                     rise_duration |-> seg[1], dwell_duration |-> seg[2],
                     fall_duration |-> seg[3],
                     jerk_limit |-> jl,
                     acceleration_limit |-> al,
                     velocity_limit |-> vl,
                     rpm |-> n]
            p    == post_init(args)
            res  == validate(p)
        IN  /\ attempt' = args
            /\ outcome' = res
            /\ exists' = (res = "ok")
            /\ params' = IF res = "ok" THEN p ELSE NoParams
            /\ validated' = IF res = "ok" THEN p ELSE NoParams
            /\ UNCHANGED <<assigned, law, out, prev, doc, loaded, analysis, result, run, rerun, pool>>

\* the constructor called with the limits left at their defaults
Construct ==
    ConstructFrom(Segments, {DefaultJerkLimit}, {DefaultAccelerationLimit},
                  {DefaultVelocityLimit})

\* the constructor called with a jerk limit
ConstructLimits ==
    ConstructFrom(Segments, JerkLimits, {DefaultAccelerationLimit},
                  {DefaultVelocityLimit})

\* values an attribute assignment may store in a field
FieldValues(fname) ==
    CASE fname = "base_circle_radius" -> BaseRadii
      [] fname = "max_lift" -> Lifts
      [] fname = "rpm" -> Rpms
      [] fname = "cam_duration" -> CamInputs
      [] fname \in {"rise_duration", "dwell_duration", "fall_duration"} -> Durations
      [] OTHER -> {}

\* obj.<field> = value: a plain dataclass stores it; nothing is recomputed
\* or validated
SetField ==
    /\ exists
    /\ assigned < MaxAssign
    /\ \E fname \in FieldNames : \E val \in FieldValues(fname) :
          params' = [params EXCEPT ![fname] = val]
    /\ assigned' = assigned + 1
    /\ UNCHANGED <<attempt, outcome, exists, validated, law, out, prev, doc, loaded,
                   analysis, result, run, rerun, pool>>

----------------------------------------------------------------------------
(* MotionLaw *)

\* total_duration taken from the stored cam_duration field
total_duration_stored(p) == p.cam_duration

\* self.total_duration of MotionLaw.__init__, from the three segment fields
total_duration_of(p) == p.rise_duration + p.dwell_duration + p.fall_duration

\* MotionLaw._validate_parameters: "ok" or the message of its ValueError;
\* total is self.total_duration
validate_parameters(p, total) ==
    IF p.max_lift <= 0 THEN "Maximum lift must be positive"
    ELSE IF p.base_circle_radius <= 0 THEN "Base circle radius must be positive"
    ELSE IF p.rise_duration < 0 THEN "Rise duration must be non-negative"
    ELSE IF p.dwell_duration < 0 THEN "Dwell duration must be non-negative"
    ELSE IF p.fall_duration < 0 THEN "Fall duration must be non-negative"
    ELSE IF total <= 0 THEN "Total cam duration must be positive"
    ELSE IF total > 360 THEN "Total cam duration must not exceed 360 degrees"
    ELSE IF p.rpm <= 0 THEN "RPM must be positive"
    ELSE "ok"

\* MotionLaw(parameters): omega (kept as the rpm it is 2*pi/60 times) and
\* total_duration are computed once, then the parameters are validated.
\* seen records the field values the constructor read.
NewLaw ==
    /\ exists
    /\ LET total == total_duration_of(params)
           res   == validate_parameters(params, total)
       IN  law' = [st |-> res,
                   omega |-> IF res = "ok" THEN params.rpm ELSE 0,
                   total_duration |-> IF res = "ok" THEN total ELSE 0,
                   seen |-> params]
    /\ out' = NoOut
    /\ prev' = NoOut
    /\ UNCHANGED <<attempt, outcome, exists, params, validated, assigned, doc, loaded,
                   analysis, result, run, rerun, pool>>

----------------------------------------------------------------------------
(* Arithmetic of the kinematic functions.  The functions below take the    *)
(* law's parameters p (self.params) and its total_duration total.          *)

\* 1000 * sin of i twelfths of a turn
SinTable == <<0, 500, 866, 1000, 866, 500, 0, -500, -866, -1000, -866, -500>>

Sin1000(i) == SinTable[(i % 12) + 1]

Cos1000(i) == Sin1000(i + 3)

\* sin(2*pi*beta) / (2*pi) in units of 1/1200000, rounded towards zero
SinOver2Pi(i) ==
    IF Sin1000(i) >= 0 THEN (Sin1000(i) * 190986) \div 1000
    ELSE 0 - (((0 - Sin1000(i)) * 190986) \div 1000)

\* the factor of an expression that depends on beta = i/12:
\*   "betasin"  beta - sin(2*pi*beta)/(2*pi)   in units of 1/1200000
\*   "onemcos"  1 - cos(2*pi*beta)             in thousandths
\*   "sin"      sin(2*pi*beta)                 in thousandths
\*   "cos"      cos(2*pi*beta)                 in thousandths
ShapeAt(f, i) ==
    CASE f = "betasin" -> 100000 * i - SinOver2Pi(i)
      [] f = "onemcos" -> 1000 - Cos1000(i)
      [] f = "sin" -> Sin1000(i)
      [] f = "cos" -> Cos1000(i)
      [] OTHER -> 0

\* mantissa of c0 + c * F(beta); the constant c0 occurs in displacements only
Mantissa(c0, c, f, i) == c0 * 1200000 + c * ShapeAt(f, i)

\* the value of  c0 + c * F(i/12) * pi^p * (1/d)^k * (omega*deg_to_rad)^w
Term(c0, c, f, p, k, w, d, i) ==
    [st |-> "num", m |-> Mantissa(c0, c, f, i), c0 |-> c0, c |-> c, f |-> f,
     p |-> p, k |-> k, w |-> w, d |-> d]

NaN == [Zero EXCEPT !.st = "nan"]

Raised == [Zero EXCEPT !.st = "raise"]

\* the angle used as it is passed, without reduction
theta_norm_id(theta) == theta

\* np.mod(theta, 360.0)
theta_norm(theta) == theta % 360

\* beta = local / duration in twelfths (the angles evaluated lie on that grid)
BetaIdx(local, duration) == (12 * local) \div duration

\* a rise segment that leaves out its upper edge
rise_mask_open(p, tn) == tn < p.rise_duration

rise_mask(p, tn) == tn <= p.rise_duration

\* a dwell end that forgets where the dwell starts
dwell_end_short(p) == p.dwell_duration

\* dwell_end = dwell_start + dwell_duration, dwell_start = rise_duration
dwell_end(p) == p.rise_duration + p.dwell_duration

dwell_mask(p, tn) == tn > p.rise_duration /\ tn <= dwell_end(p)

\* a fall segment that never ends
fall_mask_unbounded(p, total, tn) == tn > dwell_end(p)

fall_mask(p, total, tn) == tn > dwell_end(p) /\ tn <= total

\* the evaluated angle lies on the grid of twelfths of the segment it is in
OnGrid(p, total, tn) ==
    /\ rise_mask(p, tn) /\ p.rise_duration > 0
          => (12 * tn) % p.rise_duration = 0
    /\ fall_mask(p, total, tn) => p.fall_duration >= 0
    /\ fall_mask(p, total, tn) /\ p.fall_duration > 0
          => (12 * (tn - dwell_end(p))) % p.fall_duration = 0

\* MotionLaw.displacement at one angle.  The array starts as zeros and the
\* rise, dwell and fall blocks assign to it in that order.  Both divisions
\* are numpy divisions: a zero duration gives nan, never an exception.
displacement(p, total, theta) ==
    LET tn == theta_norm(theta)
        lift == p.max_lift
        rise == p.rise_duration
        fall == p.fall_duration
        afterRise ==
            IF rise_mask(p, tn)
            THEN IF rise = 0 THEN NaN
                 ELSE Term(0, lift, "betasin", 0, 0, 0, rise, BetaIdx(tn, rise))
            ELSE Zero
        afterDwell ==
            IF dwell_mask(p, tn) THEN Term(lift, 0, "zero", 0, 0, 0, 0, 0) ELSE afterRise
    IN  IF fall_mask(p, total, tn)
        THEN IF fall = 0 THEN NaN
             ELSE Term(lift, 0 - lift, "betasin", 0, 0, 0, fall,
                       BetaIdx(tn - dwell_end(p), fall))
        ELSE afterDwell

\* dbeta_dtheta = 1.0 / duration is a Python division when the field holds a
\* Python number (ZeroDivisionError on zero) and a numpy division when it
\* holds a numpy scalar (inf, and the product with cos(nan) is nan)
ZeroDivision(p, total, tn, np) ==
    /\ ~np
    /\ \/ rise_mask(p, tn) /\ p.rise_duration = 0
       \/ fall_mask(p, total, tn) /\ p.fall_duration = 0

\* velocity whose fall block carries the sign of the rise block
velocity_unsigned(p, total, theta, np) ==
    LET tn == theta_norm(theta)
        lift == p.max_lift
        rise == p.rise_duration
        fall == p.fall_duration
        afterRise ==
            IF rise_mask(p, tn)
            THEN IF rise = 0 THEN NaN
                 ELSE Term(0, lift, "onemcos", 0, 1, 1, rise, BetaIdx(tn, rise))
            ELSE Zero
        afterDwell == IF dwell_mask(p, tn) THEN Zero ELSE afterRise
    IN  IF ZeroDivision(p, total, tn, np) THEN Raised
        ELSE IF fall_mask(p, total, tn)
        THEN IF fall = 0 THEN NaN
             ELSE Term(0, lift, "onemcos", 0, 1, 1, fall,
                       BetaIdx(tn - dwell_end(p), fall))
        ELSE afterDwell

\* MotionLaw.velocity at one angle
velocity(p, total, theta, np) ==
    LET tn == theta_norm(theta)
        lift == p.max_lift
        rise == p.rise_duration
        fall == p.fall_duration
        afterRise ==
            IF rise_mask(p, tn)
            THEN IF rise = 0 THEN NaN
                 ELSE Term(0, lift, "onemcos", 0, 1, 1, rise, BetaIdx(tn, rise))
            ELSE Zero
        afterDwell == IF dwell_mask(p, tn) THEN Zero ELSE afterRise
    IN  IF ZeroDivision(p, total, tn, np) THEN Raised
        ELSE IF fall_mask(p, total, tn)
        THEN IF fall = 0 THEN NaN
             ELSE Term(0, 0 - lift, "onemcos", 0, 1, 1, fall,
                       BetaIdx(tn - dwell_end(p), fall))
        ELSE afterDwell

\* MotionLaw.acceleration at one angle
acceleration(p, total, theta, np) ==
    LET tn == theta_norm(theta)
        lift == p.max_lift
        rise == p.rise_duration
        fall == p.fall_duration
        afterRise ==
            IF rise_mask(p, tn)
            THEN IF rise = 0 THEN NaN
                 ELSE Term(0, lift * 2, "sin", 1, 2, 2, rise, BetaIdx(tn, rise))
            ELSE Zero
        afterDwell == IF dwell_mask(p, tn) THEN Zero ELSE afterRise
    IN  IF ZeroDivision(p, total, tn, np) THEN Raised
        ELSE IF fall_mask(p, total, tn)
        THEN IF fall = 0 THEN NaN
             ELSE Term(0, lift * 2, "sin", 1, 2, 2, fall,
                       BetaIdx(tn - dwell_end(p), fall))
        ELSE afterDwell

\* MotionLaw.jerk at one angle
jerk(p, total, theta, np) ==
    LET tn == theta_norm(theta)
        lift == p.max_lift
        rise == p.rise_duration
        fall == p.fall_duration
        afterRise ==
            IF rise_mask(p, tn)
            THEN IF rise = 0 THEN NaN
                 ELSE Term(0, lift * 4, "cos", 2, 3, 3, rise, BetaIdx(tn, rise))
            ELSE Zero
        afterDwell == IF dwell_mask(p, tn) THEN Zero ELSE afterRise
    IN  IF ZeroDivision(p, total, tn, np) THEN Raised
        ELSE IF fall_mask(p, total, tn)
        THEN IF fall = 0 THEN NaN
             ELSE Term(0, 0 - (lift * 4), "cos", 2, 3, 3, fall,
                       BetaIdx(tn - dwell_end(p), fall))
        ELSE afterDwell

\* the numeric types a zero duration can be stored in; the type matters to
\* a division by zero only
NumberTypes(p, total, tn) ==
    IF \/ rise_mask(p, tn) /\ p.rise_duration = 0
       \/ fall_mask(p, total, tn) /\ p.fall_duration = 0
    THEN BOOLEAN ELSE {FALSE}

\* the caller evaluates displacement, velocity, acceleration and jerk of the
\* law at one cam angle; the evaluation before it is kept for comparison
Evaluate ==
    /\ law.st = "ok"
    /\ \E theta \in Thetas :
       \E np \in NumberTypes(params, law.total_duration, theta_norm(theta)) :
          /\ OnGrid(params, law.total_duration, theta_norm(theta))
          /\ out' = [done |-> TRUE, theta |-> theta,
                     s |-> displacement(params, law.total_duration, theta),
                     v |-> velocity(params, law.total_duration, theta, np),
                     a |-> acceleration(params, law.total_duration, theta, np),
                     j |-> jerk(params, law.total_duration, theta, np)]
    /\ prev' = out
    /\ UNCHANGED <<attempt, outcome, exists, params, validated, assigned, law,
                   doc, loaded, analysis, result, run, rerun, pool>>

----------------------------------------------------------------------------
(* Serialization: to_json, to_toml, from_json, from_toml, toml.dumps,      *)
(* toml.loads                                                               *)

\* lexical forms of a token
Decimal(n) == [form |-> "decimal", num |-> n, word |-> ""]     \* 25.0, 1e-07
Digits(n)  == [form |-> "digits", num |-> n, word |-> ""]      \* 25, -1
Word(w)    == [form |-> "word", num |-> 0, word |-> w]         \* true, inf, abc
Quoted     == [form |-> "quoted", num |-> 0, word |-> ""]      \* "abc"
Unbalanced == [form |-> "unbalanced", num |-> 0, word |-> ""]  \* "3000
NoSeparator == [form |-> "noseparator", num |-> 0, word |-> ""] \* rpm 3000

\* Python values
Num(n)  == [kind |-> "num", v |-> n]
Bool(b) == [kind |-> "bool", v |-> IF b THEN 1 ELSE 0]
Str     == [kind |-> "str", v |-> 0]
Undecodable == [kind |-> "error", v |-> 0]

\* to_dict: asdict(self), one entry per dataclass field
to_dict(p) == [k \in FieldNames |-> p[k]]

\* str(value) of a float, as toml.dumps writes it
toml_str(n) == IF n = Infinity THEN Word("inf") ELSE Decimal(n)

\* float.__repr__ as json.dumps writes it
json_repr(n) == IF n = Infinity THEN Word("Infinity") ELSE Decimal(n)

\* toml.dumps: one "key = value" line per entry
toml_dumps(d) == [k \in DOMAIN d |-> toml_str(d[k])]

\* json.dumps(..., indent=2)
json_dumps(d) == [k \in DOMAIN d |-> json_repr(d[k])]

\* the value branch of toml.loads: a quoted value is a string, true / false
\* a boolean, a value with '.' or 'e' goes to float(), any other to int()
toml_value(t) ==
    CASE t.form = "quoted" -> Str
      [] t.form = "word" /\ t.word \in {"true", "false"} -> Bool(t.word = "true")
      [] t.form = "decimal" -> Num(t.num)
      [] t.form = "digits" -> Num(t.num)
      [] t.form = "absent" -> Missing
      [] OTHER -> Undecodable

\* a JSON value as json.loads reads it; Infinity is accepted
json_value(t) ==
    CASE t.form = "quoted" -> Str
      [] t.form = "word" /\ t.word \in {"true", "false"} -> Bool(t.word = "true")
      [] t.form = "word" /\ t.word = "Infinity" -> Num(Infinity)
      [] t.form = "decimal" -> Num(t.num)
      [] t.form = "digits" -> Num(t.num)
      [] t.form = "absent" -> Missing
      [] OTHER -> Undecodable

\* toml.loads: TomlDecodeError for a line without '=' or a value that is
\* neither quoted, boolean nor a number; else the dictionary
toml_loads(body) ==
    LET data == [k \in FieldNames |-> toml_value(body[k])]
    IN  [ok |-> \A k \in FieldNames : data[k] # Undecodable, data |-> data]

\* json.loads: JSONDecodeError or the dictionary
json_loads(body) ==
    LET data == [k \in FieldNames |-> json_value(body[k])]
    IN  [ok |-> \A k \in FieldNames : data[k] # Undecodable, data |-> data]

\* required_fields of _validate_data, in its order
RequiredFields == <<"base_circle_radius", "max_lift", "rise_duration",
                    "dwell_duration", "fall_duration", "rpm">>

RequiredSet == {RequiredFields[i] : i \in DOMAIN RequiredFields}

FirstOf(S) == CHOOSE i \in S : \A j \in S : i <= j

\* isinstance(value, (int, float)): bool is a subclass of int
IsNumber(x) == x.kind \in {"num", "bool"}

\* _validate_data: the first missing required field, else the first
\* required field that is not an int or float, else "ok"
validate_data(data) ==
    LET missing  == {i \in DOMAIN RequiredFields :
                        data[RequiredFields[i]].kind = "absent"}
        mistyped == {i \in DOMAIN RequiredFields :
                        ~IsNumber(data[RequiredFields[i]])}
    IN  IF missing # {}
        THEN [msg |-> "Missing required field",
              field |-> RequiredFields[FirstOf(missing)]]
        ELSE IF mistyped # {}
        THEN [msg |-> "Field must be a number",
              field |-> RequiredFields[FirstOf(mistyped)]]
        ELSE [msg |-> "ok", field |-> ""]

\* dataclass defaults of the fields _validate_data does not require
DefaultOf(k) ==
    CASE k = "cam_duration" -> DefaultCamDuration
      [] k = "jerk_limit" -> DefaultJerkLimit
      [] k = "acceleration_limit" -> DefaultAccelerationLimit
      [] k = "velocity_limit" -> DefaultVelocityLimit
      [] OTHER -> 0

\* from_dict: cls(**data).  Keys that are absent take their defaults;
\* __post_init__ sets cam_duration and validates the numbers (True counts
\* as 1 and False as 0).  res is "ok" or the message of the ValueError.
from_dict(data) ==
    LET given == [k \in FieldNames |->
                    IF data[k].kind = "absent" THEN Num(DefaultOf(k)) ELSE data[k]]
        p     == post_init([k \in FieldNames |-> given[k].v])
    IN  [res |-> validate(p),
         obj |-> [given EXCEPT !["cam_duration"] = Num(p.cam_duration)]]

\* the exception classes from_json / from_toml raise for an undecodable
\* text, for a failure of _validate_data and for one of the constructor
DecodeErrorKind     == "ValueError"
FieldErrorKind      == "ValueError"
InfeasibleErrorKind == "ValueError"

Failure(exc, prefix, stage, msg, field) ==
    [NoLoaded EXCEPT !.st = "error", !.exc = exc, !.prefix = prefix,
                     !.stage = stage, !.msg = msg, !.field = field]

\* from_json / from_toml: loads, _validate_data, from_dict; a decode error is
\* re-raised as ValueError("Invalid ... format: ..."), every other exception
\* as ValueError("Error parsing ...: ...")
from_text(d) ==
    LET parsed == IF d.fmt = "toml" THEN toml_loads(d.body) ELSE json_loads(d.body)
        chk    == validate_data(parsed.data)
        built  == from_dict(parsed.data)
    IN  IF ~parsed.ok
        THEN Failure(DecodeErrorKind, "Invalid format", "loads", "", "")
        ELSE IF chk.msg # "ok"
        THEN Failure(FieldErrorKind, "Error parsing", "_validate_data",
                     chk.msg, chk.field)
        ELSE IF built.res # "ok"
        THEN Failure(InfeasibleErrorKind, "Error parsing", "from_dict",
                     built.res, "")
        ELSE [NoLoaded EXCEPT !.st = "ok", !.obj = built.obj]

\* p.to_json() or p.to_toml() of the validated object
Serialize ==
    /\ exists
    /\ doc.fmt = "none"
    /\ \E fmt \in {"json", "toml"} :
          doc' = [fmt |-> fmt, edited |-> FALSE,
                  body |-> IF fmt = "toml" THEN toml_dumps(to_dict(params))
                           ELSE json_dumps(to_dict(params))]
    /\ UNCHANGED <<attempt, outcome, exists, params, validated, assigned, law,
                   out, prev, loaded, analysis, result, run, rerun, pool>>

\* keys whose text is edited
EditKeys == RequiredSet \cup {"jerk_limit"}

\* what an edit leaves to the right of a key
EditTokens == {NoToken, Quoted, Word("true"), Word("false"), Word("abc"),
               Unbalanced, NoSeparator, Digits(-1)}

\* the document is edited by hand before it is read: one key is removed or
\* its value replaced
Edit ==
    /\ doc.fmt # "none"
    /\ ~doc.edited
    /\ loaded.st = "none"
    /\ \E k \in EditKeys, t \in EditTokens :
          doc' = [doc EXCEPT !.edited = TRUE, !.body[k] = t]
    /\ UNCHANGED <<attempt, outcome, exists, params, validated, assigned, law,
                   out, prev, loaded, analysis, result, run, rerun, pool>>

\* MotionParameters.from_json(text) or MotionParameters.from_toml(text)
Deserialize ==
    /\ doc.fmt # "none"
    /\ loaded.st = "none"
    /\ loaded' = from_text(doc)
    /\ UNCHANGED <<attempt, outcome, exists, params, validated, assigned, law,
                   out, prev, doc, analysis, result, run, rerun, pool>>

----------------------------------------------------------------------------
(* MotionLaw.analyze_kinematics                                             *)

Abs(n) == IF n < 0 THEN 0 - n ELSE n

\* omega * deg_to_rad in thousandths: (rpm * 2 pi / 60) * (pi / 180)
AngularRate(rpm) == (rpm * 9870) \div 5400

\* |t| in hundredths of its unit: the mantissa (thousandths) times pi^p,
\* (omega * deg_to_rad)^w and (1/d)^k, divided down step by step
Magnitude(t, rpm) ==
    LET m == Abs(t.m)
        W == AngularRate(rpm)
        v1 == (m * W) \div (10000 * t.d)
        a1 == (m * 3142) \div 1000
        a2 == (a1 * W) \div (1000 * t.d)
        a3 == (a2 * W) \div (10000 * t.d)
        j1 == (m * 9870) \div (1000 * t.d)
        j2 == (j1 * W) \div (1000 * t.d)
        j3 == (j2 * W) \div (1000 * t.d)
        j4 == (j3 * W) \div 10000
    IN  CASE t.st # "num" \/ m = 0 -> 0
          [] t.w = 1 -> v1
          [] t.w = 2 -> a3
          [] t.w = 3 -> j4
          [] OTHER -> m \div 12000

\* np.linspace(0, total, n); the analysed sample counts divide total
linspace(total, n) ==
    IF n = 0 THEN << >>
    ELSE [i \in 1..n |-> IF n = 1 THEN 0 ELSE (total * (i - 1)) \div (n - 1)]

\* every sample is a whole angle on the grid of twelfths
Sampled(p, total, n) ==
    \A i \in 1..n :
        /\ n > 1 => (total * (i - 1)) % (n - 1) = 0
        /\ OnGrid(p, total, theta_norm(linspace(total, n)[i]))

SetMax(S) == CHOOSE x \in S : \A y \in S : y <= x

\* the sum of the squares of seq[lo..hi], taken by halves
RECURSIVE SumSquaresOver(_, _, _, _)
SumSquaresOver(seq, scale, lo, hi) ==
    IF lo > hi THEN 0
    ELSE IF lo = hi THEN (seq[lo] \div scale) * (seq[lo] \div scale)
    ELSE LET mid == (lo + hi) \div 2
         IN  SumSquaresOver(seq, scale, lo, mid)
                + SumSquaresOver(seq, scale, mid + 1, hi)

SumSquares(seq, scale) == SumSquaresOver(seq, scale, 1, Len(seq))

RECURSIVE SqrtBetween(_, _, _)
SqrtBetween(n, lo, hi) ==
    IF lo >= hi THEN lo
    ELSE LET mid == (lo + hi + 1) \div 2
         IN  IF mid * mid <= n THEN SqrtBetween(n, mid, hi)
             ELSE SqrtBetween(n, lo, mid - 1)

\* np.sqrt, rounded down
Sqrt(n) == SqrtBetween(n, 0, 40000)

\* analyze_kinematics(num_points = n) of a law with parameters p and
\* total_duration total.  The four functions are evaluated on the samples;
\* a ZeroDivisionError of theirs leaves the call, np.max of an empty array
\* raises ValueError, a nan sample makes the maxima and the rms values nan
\* (nan > limit is False).  rms_jerk is taken from whole units.
analyze_kinematics(p, total, n, np) ==
    LET theta == linspace(total, n)
        s == [i \in 1..n |-> displacement(p, total, theta[i])]
        v == [i \in 1..n |-> velocity(p, total, theta[i], np)]
        a == [i \in 1..n |-> acceleration(p, total, theta[i], np)]
        j == [i \in 1..n |-> jerk(p, total, theta[i], np)]
        raised == \E i \in 1..n : v[i].st = "raise"
        nan == \E i \in 1..n : v[i].st = "nan"
        absv == [i \in 1..n |-> Magnitude(v[i], p.rpm)]
        absa == [i \in 1..n |-> Magnitude(a[i], p.rpm)]
        absj == [i \in 1..n |-> Magnitude(j[i], p.rpm)]
        maxv == SetMax({absv[i] : i \in 1..n})
        maxa == SetMax({absa[i] : i \in 1..n})
        maxj == SetMax({absj[i] : i \in 1..n})
    IN  IF raised
        THEN [NoAnalysis EXCEPT !.done = TRUE, !.st = "ZeroDivisionError",
                                !.n = n, !.parameters = p]
        ELSE IF n = 0
        THEN [NoAnalysis EXCEPT !.done = TRUE, !.st = "ValueError",
                                !.parameters = p]
        ELSE [done |-> TRUE, st |-> "ok", n |-> n, nan |-> nan,
              theta |-> theta,
              displacement |-> [i \in 1..n |-> s[i].m],
              velocity |-> [i \in 1..n |-> v[i].m],
              acceleration |-> [i \in 1..n |-> a[i].m],
              jerk |-> [i \in 1..n |-> j[i].m],
              max_velocity |-> IF nan THEN 0 ELSE maxv,
              max_acceleration |-> IF nan THEN 0 ELSE maxa,
              max_jerk |-> IF nan THEN 0 ELSE maxj,
              rms_acceleration |->
                  IF nan THEN 0 ELSE Sqrt(SumSquares(absa, 1) \div n),
              rms_jerk |->
                  IF nan THEN 0 ELSE 100 * Sqrt(SumSquares(absj, 100) \div n),
              velocity_violation |-> ~nan /\ maxv > p.velocity_limit * 100,
              acceleration_violation |-> ~nan /\ maxa > p.acceleration_limit * 100,
              jerk_violation |-> ~nan /\ maxj > p.jerk_limit * 100,
              parameters |-> p]

\* limits a caller passes to have constraints that bind
TightJerkLimits         == {100, DefaultJerkLimit}
TightAccelerationLimits == {10, DefaultAccelerationLimit}
TightVelocityLimits     == {0, 10}

\* profiles that are analysed
AnalysedSegments == {<<0, 0, 0>>, <<0, 6, 0>>, <<0, 6, 6>>, <<6, 0, 6>>,
                     <<6, 6, 6>>, <<12, 0, 12>>, <<6, 6, 0>>, <<90, 45, 90>>,
                     <<-1, 6, 6>>, <<360, 6, 6>>}

\* the constructor called with all three limits
ConstructConstrained ==
    ConstructFrom(AnalysedSegments, TightJerkLimits, TightAccelerationLimits,
                  TightVelocityLimits)

\* values of num_points
NumPoints == {0, 1, 2, 3, 5, 13}

\* law.analyze_kinematics(n)
Analyze ==
    /\ law.st = "ok"
    /\ \E n \in NumPoints :
       \E np \in (IF n > 0 THEN NumberTypes(params, law.total_duration, 0)
                           ELSE {FALSE}) :
          /\ Sampled(params, law.total_duration, n)
          /\ analysis' = analyze_kinematics(params, law.total_duration, n, np)
    /\ result' = NoResult
    /\ UNCHANGED <<attempt, outcome, exists, params, validated, assigned, law,
                   out, prev, doc, loaded, run, rerun, pool>>

----------------------------------------------------------------------------
(* MotionOptimizer.objective_function                                       *)

ObjectiveTypes == {"rms_acceleration", "max_jerk", "energy"}

\* the value returned for a failed evaluation (1e6)
FailureValue == 1000000

\* the penalty block: 1000 * (maximum - limit) for every violation flag
penalty_of(ana, p) ==
      (IF ana.velocity_violation
       THEN 1000 * (ana.max_velocity - p.velocity_limit * 100) ELSE 0)
    + (IF ana.acceleration_violation
       THEN 1000 * (ana.max_acceleration - p.acceleration_limit * 100) ELSE 0)
    + (IF ana.jerk_violation
       THEN 1000 * (ana.max_jerk - p.jerk_limit * 100) ELSE 0)

\* the objective block, in hundredths
objective_of(ana, objective_type) ==
    CASE objective_type = "rms_acceleration" -> ana.rms_acceleration
      [] objective_type = "max_jerk" -> ana.max_jerk
      [] objective_type = "energy" ->
            (ana.rms_acceleration * ana.rms_acceleration) \div 100
      [] OTHER -> 0

\* the candidate objective_function builds from the base parameters and x
candidate_of(base, x0, x1, x2) ==
    post_init([base_circle_radius |-> base.base_circle_radius,
               max_lift |-> x0,
               cam_duration |-> DefaultCamDuration,
               rise_duration |-> x1,
               dwell_duration |-> base.dwell_duration,
               fall_duration |-> x2,
               jerk_limit |-> base.jerk_limit,
               acceleration_limit |-> base.acceleration_limit,
               velocity_limit |-> base.velocity_limit,
               rpm |-> base.rpm])

\* the analysis objective_function asks for; its samples are taken one per
\* degree
candidate_analysis(cand, np) ==
    analyze_kinematics(cand, total_duration_of(cand),
                       total_duration_of(cand) + 1, np)

\* objective_function(x, objective_type) once the candidate cand is built:
\* the rest of the try block, and the "except Exception" that returns 1e6
\* for whatever was raised in it.  v1 and v2 are the outcomes of the two
\* constructors, ana the analysis; cause names what was raised.
objective_function(cand, v1, v2, ana, objective_type) ==
    LET failed(cause) ==
            [NoResult EXCEPT !.done = TRUE, !.st = "returned", !.cause = cause,
                             !.objective_type = objective_type,
                             !.value = FailureValue * 100, !.candidate = cand]
    IN  IF v1 # "ok" THEN failed("MotionParameters")
        ELSE IF v2 # "ok" THEN failed("MotionLaw")
        ELSE IF ana.st # "ok" THEN failed(ana.st)
        ELSE IF objective_type \notin ObjectiveTypes
        THEN failed("Unknown objective type")
        ELSE [done |-> TRUE, st |-> "returned", cause |-> "none",
              objective_type |-> objective_type,
              value |-> IF ana.nan THEN 0
                        ELSE objective_of(ana, objective_type)
                                + penalty_of(ana, cand),
              nan |-> ana.nan, candidate |-> cand]

\* vectors x = [max_lift, rise_duration, fall_duration] the optimizer tries
CandidateVectors == {<<10, 6, 6>>, <<10, 12, 12>>, <<10, 12, 6>>, <<10, 0, 6>>,
                     <<10, 6, 0>>, <<10, 0, 0>>, <<0, 6, 6>>, <<10, -1, 6>>}

\* MotionOptimizer(params).objective_function(x, objective_type): the
\* candidate is built and validated, its law built and analysed (analysis
\* holds that analysis), and the value or 1e6 returned.  A behaviour follows
\* one evaluation.
Objective ==
    /\ exists
    /\ ~result.done
    /\ \E x \in CandidateVectors,
          objective_type \in ObjectiveTypes \cup {"other"} :
       LET cand == candidate_of(params, x[1], x[2], x[3])
           v1   == validate(cand)
           v2   == validate_parameters(cand, total_duration_of(cand))
           ok   == v1 = "ok" /\ v2 = "ok"
       IN  \E np \in (IF ok THEN NumberTypes(cand, total_duration_of(cand), 0)
                            ELSE {FALSE}) :
              /\ analysis' = IF ok THEN candidate_analysis(cand, np)
                             ELSE NoAnalysis
              /\ result' = objective_function(cand, v1, v2, analysis',
                                              objective_type)
    /\ UNCHANGED <<attempt, outcome, exists, params, validated, assigned, law,
                   out, prev, doc, loaded, run, rerun, pool>>

----------------------------------------------------------------------------
(* MotionOptimizer.optimize.  The two searches are library routines         *)
(* (scipy.optimize.differential_evolution, and scipy.optimize.minimize with *)
(* L-BFGS-B).  They are modelled by what they are called with and by what   *)
(* they are documented to do with it: both evaluate the objective only at   *)
(* points of the box they are given (minimize clips its starting point into *)
(* the box first), differential_evolution draws its points from a generator *)
(* started from the seed it is given and reports success when the energies  *)
(* of its population have converged, minimize descends from its starting    *)
(* point.  The box is sampled on a grid of lifts and durations.             *)

Methods == {"differential_evolution", "minimize"}

\* bounds = None
NoBounds == << >>

\* the box optimize searches when it is given none
DefaultBounds == << <<5, 20>>, <<45, 135>>, <<45, 135>> >>

\* boxes a caller supplies: one around the small profiles, one that is a
\* single point, one in which every profile is longer than a turn
SuppliedBounds == {<< <<5, 10>>, <<6, 12>>, <<6, 12>> >>,
                   << <<10, 10>>, <<6, 6>>, <<6, 6>> >>,
                   << <<10, 10>>, <<360, 360>>, <<6, 12>> >>}

\* a search that ignores the box it was given
search_bounds_default(bounds) == DefaultBounds

\* the box handed to the search
search_bounds(bounds) == IF bounds = NoBounds THEN DefaultBounds ELSE bounds

\* the lifts and durations the search can try
LiftGrid     == {5, 10}
DurationGrid == {6, 12, 45, 360}

Within(S, b) == {v \in S : b[1] <= v /\ v <= b[2]}

\* the points of a box
BoxGrid(box) ==
    Within(LiftGrid, box[1]) \X Within(DurationGrid, box[2])
        \X Within(DurationGrid, box[3])

\* x0 = [max_lift, rise_duration, fall_duration] of the base parameters
start_vector(base) == <<base.max_lift, base.rise_duration, base.fall_duration>>

\* one call of the lambda the search is given: objective_function(x,
\* objective_type) with x a numpy array, so a division by a zero duration
\* gives nan and raises nothing
evaluation(base, x, objective_type) ==
    LET cand == candidate_of(base, x[1], x[2], x[3])
        v1   == validate(cand)
        v2   == validate_parameters(cand, total_duration_of(cand))
    IN  CHOOSE r \in {objective_function(cand, v1, v2, ana, objective_type) :
                        ana \in {IF v1 = "ok" /\ v2 = "ok"
                                 THEN candidate_analysis(cand, TRUE)
                                 ELSE NoAnalysis}} : TRUE

\* the objective over the points of the box: pairs of a point and the
\* value returned for it
Table(base, box, objective_type) ==
    {<<x, evaluation(base, x, objective_type).value>> : x \in BoxGrid(box)}

\* the value the objective returns at x
ValueAt(tab, x) == (CHOOSE pair \in tab : pair[1] = x)[2]

\* the points of the box
PointsOf(tab) == {pair[1] : pair \in tab}

\* the arguments of the differential_evolution call
DESeed    == 42
DEMaxIter == 100
DEPopSize == 15

\* population members drawn in a run
DEDraws == 3

\* states of the process's own random generator at the time of a call
Entropy == {1, 2}

\* a generator started from the state of the process (seed = None)
seed_entropy(e) == e

\* seed = 42, whatever the state of the process
seed_of(e) == DESeed

\* the generator: its next state
NextDraw(r) == (5 * r + 3) % 16

LexLess(a, b) ==
    \/ a[1] < b[1]
    \/ a[1] = b[1] /\ a[2] < b[2]
    \/ a[1] = b[1] /\ a[2] = b[2] /\ a[3] < b[3]

\* the points of a box in order
RECURSIVE GridSeq(_)
GridSeq(S) ==
    IF S = {} THEN << >>
    ELSE LET m == CHOOSE x \in S : \A y \in S \ {x} : LexLess(x, y)
         IN  <<m>> \o GridSeq(S \ {m})

\* k members drawn from the points grid by a generator in state r
RECURSIVE Draws(_, _, _)
Draws(r, grid, k) ==
    IF k = 0 THEN << >>
    ELSE <<grid[(r % Len(grid)) + 1]>> \o Draws(NextDraw(r), grid, k - 1)

SetMin(S) == CHOOSE x \in S : \A y \in S : x <= y

\* differential_evolution(f, bounds, seed, maxiter, popsize): the members
\* are evaluated, the best is x; the run has converged when the energies
\* lie within tol = 0.01 of their size, otherwise maxiter is used up
differential_evolution(tab, seed, maxiter, popsize) ==
    LET grid == GridSeq(PointsOf(tab))
        k    == IF DEDraws < 3 * popsize THEN DEDraws ELSE 3 * popsize
        pop  == Draws(seed % 16, grid, k)
        vals == {ValueAt(tab, pop[i]) : i \in 1..k}
        best == CHOOSE i \in 1..k :
                    /\ \A j \in 1..k : ValueAt(tab, pop[i]) <= ValueAt(tab, pop[j])
                    /\ \A j \in 1..(i - 1) :
                          ValueAt(tab, pop[i]) < ValueAt(tab, pop[j])
        converged == SetMax(vals) - SetMin(vals) <= SetMax(vals) \div 100
    IN  [evaluated |-> {pop[i] : i \in 1..k},
         x |-> pop[best], fun |-> ValueAt(tab, pop[best]),
         success |-> converged,
         message |-> IF converged THEN "Optimization terminated successfully."
                     ELSE "Maximum number of iterations has been exceeded.",
         nit |-> IF converged THEN 1 ELSE maxiter,
         seed |-> seed, maxiter |-> maxiter, popsize |-> popsize]

Clip(v, b) == IF v < b[1] THEN b[1] ELSE IF v > b[2] THEN b[2] ELSE v

\* the points next to x: those that differ from it in one coordinate
Neighbours(S, x) ==
    {y \in S : Cardinality({i \in 1..3 : y[i] # x[i]}) = 1}

\* descent from x: the neighbours are probed and the best one that lowers
\* the objective is taken, until none does
RECURSIVE Descend(_, _, _, _)
Descend(tab, x, evaluated, nit) ==
    LET probes == Neighbours(PointsOf(tab), x)
        better == {y \in probes : ValueAt(tab, y) < ValueAt(tab, x)}
        next   == CHOOSE y \in better :
                     \A z \in better \ {y} :
                        \/ ValueAt(tab, y) < ValueAt(tab, z)
                        \/ ValueAt(tab, y) = ValueAt(tab, z) /\ LexLess(y, z)
    IN  IF better = {}
        THEN [evaluated |-> evaluated \cup probes,
              x |-> x, fun |-> ValueAt(tab, x),
              success |-> TRUE,
              message |-> "CONVERGENCE: NORM_OF_PROJECTED_GRADIENT_<=_PGTOL",
              nit |-> nit, seed |-> 0, maxiter |-> 0, popsize |-> 0]
        ELSE Descend(tab, next, evaluated \cup probes, nit + 1)

\* minimize(f, x0, bounds = bounds, method = 'L-BFGS-B'): x0 is clipped into
\* the box and the descent starts there
minimize(tab, x0, box) ==
    LET start == <<Clip(x0[1], box[1]), Clip(x0[2], box[2]), Clip(x0[3], box[3])>>
    IN  Descend(tab, start, {start}, 0)

\* an optimized parameter set that takes the default dwell
optimized_dwell_default(base, x) ==
    post_init([base_circle_radius |-> base.base_circle_radius,
               max_lift |-> x[1],
               cam_duration |-> DefaultCamDuration,
               rise_duration |-> x[2],
               dwell_duration |-> 45,
               fall_duration |-> x[3],
               jerk_limit |-> base.jerk_limit,
               acceleration_limit |-> base.acceleration_limit,
               velocity_limit |-> base.velocity_limit,
               rpm |-> base.rpm])

\* optimized_params = MotionParameters(...) built from result.x and the base
\* parameters
optimized_of(base, x) ==
    post_init([base_circle_radius |-> base.base_circle_radius,
               max_lift |-> x[1],
               cam_duration |-> DefaultCamDuration,
               rise_duration |-> x[2],
               dwell_duration |-> base.dwell_duration,
               fall_duration |-> x[3],
               jerk_limit |-> base.jerk_limit,
               acceleration_limit |-> base.acceleration_limit,
               velocity_limit |-> base.velocity_limit,
               rpm |-> base.rpm])

\* a rebuild that goes on whatever the constructors say, as the objective
\* function does
rebuild_unchecked(opt) == "ok"

\* what MotionParameters(...) and MotionLaw(optimized_params) raise for the
\* rebuilt parameters: "ok" or the message of the ValueError
rebuild_outcome(opt) ==
    IF validate(opt) # "ok" THEN validate(opt)
    ELSE validate_parameters(opt, total_duration_of(opt))

\* the figures with the two analyses the wrong way round
improvement_reversed(ba, oa) ==
    [rms_acceleration_reduction |-> oa.rms_acceleration - ba.rms_acceleration,
     max_jerk_reduction |-> oa.max_jerk - ba.max_jerk,
     nan |-> ba.nan \/ oa.nan]

\* the 'improvement' entry: the analysis of the base parameters minus that
\* of the optimized ones
improvement_of(ba, oa) ==
    [rms_acceleration_reduction |-> ba.rms_acceleration - oa.rms_acceleration,
     max_jerk_reduction |-> ba.max_jerk - oa.max_jerk,
     nan |-> ba.nan \/ oa.nan]

\* a report that always says success
report_masked(s) ==
    [success |-> TRUE, message |-> "Optimization completed", iterations |-> s.nit]

\* the 'success', 'message' and 'iterations' entries, from the result of the
\* search
report_of(s) ==
    [success |-> s.success, message |-> s.message, iterations |-> s.nit]

\* MotionLaw(self.base_params).analyze_kinematics(), for each numeric type
\* the base durations can be stored in
BaseAnalyses(base) ==
    LET total == total_duration_of(base)
        v     == validate_parameters(base, total)
    IN  IF v # "ok"
        THEN {[np |-> FALSE,
               ana |-> [NoAnalysis EXCEPT !.done = TRUE, !.st = "ValueError"]]}
        ELSE {[np |-> np, ana |-> candidate_analysis(base, np)] :
                 np \in NumberTypes(base, total, 0)}

\* optimize from the result s of the search on: the parameters are rebuilt,
\* analysed, the base parameters analysed, and the dictionary returned.  Any
\* of these steps can raise, and then optimize raises.
optimize_finish(call, base, s, b) ==
    LET opt == optimized_of(base, s.x)
        rep == report_of(s)
        searched ==
            [call EXCEPT !.evaluated = s.evaluated,
                         !.seed = s.seed, !.maxiter = s.maxiter,
                         !.popsize = s.popsize,
                         !.reported = [success |-> s.success,
                                       message |-> s.message, nit |-> s.nit],
                         !.x = s.x, !.np = b.np]
    IN  IF rebuild_outcome(opt) # "ok"
        THEN [searched EXCEPT !.phase = "raised", !.exc = "ValueError"]
        ELSE CHOOSE r \in
               {IF b.ana.st # "ok"
                THEN [searched EXCEPT !.phase = "raised", !.exc = b.ana.st]
                ELSE [searched EXCEPT
                         !.phase = "returned",
                         !.success = rep.success,
                         !.message = rep.message,
                         !.iterations = rep.iterations,
                         !.objective_value = s.fun,
                         !.optimized_parameters = opt,
                         !.original_parameters = base,
                         !.kinematic_analysis = oa,
                         !.base_analysis = b.ana,
                         !.improvement = improvement_of(b.ana, oa)] :
                oa \in {candidate_analysis(opt, TRUE)}} : TRUE

\* optimize(bounds, objective_type, method) of MotionOptimizer(base), called
\* while the process's generator is in state e; tab is the objective over
\* the box and b the analysis of the base parameters
optimize(base, bounds, objective_type, method, e, tab, b) ==
    LET box  == search_bounds(bounds)
        call == [NoRun EXCEPT !.method = method,
                              !.objective_type = objective_type,
                              !.bounds = bounds, !.box = box,
                              !.x0 = start_vector(base), !.entropy = e,
                              !.objective = tab]
    IN  IF method \notin Methods
        THEN [call EXCEPT !.phase = "raised", !.exc = "ValueError"]
        ELSE CHOOSE r \in
               {optimize_finish(call, base, s, b) :
                  s \in {IF method = "differential_evolution"
                         THEN differential_evolution(tab, seed_of(e), DEMaxIter,
                                                     DEPopSize)
                         ELSE minimize(tab, start_vector(base), box)}} : TRUE

\* every way one optimize call with these bounds, this objective and a
\* method of MS can go, tab being the objective over the box
OptimizeCallsOver(base, bounds, objective_type, MS, tab) ==
    UNION {{optimize(base, bounds, objective_type, method, e, tab, b) :
              method \in MS, e \in Entropy} :
           b \in BaseAnalyses(base)}

OptimizeCalls(base, bounds, objective_type) ==
    UNION {OptimizeCallsOver(base, bounds, objective_type,
                             Methods \cup {"other"}, tab) :
           tab \in {Table(base, search_bounds(bounds), objective_type)}}

\* profiles an optimizer is built on
BaselineSegments == {<<6, 0, 6>>, <<12, 0, 12>>, <<6, 6, 6>>, <<12, 6, 6>>,
                     <<0, 6, 6>>, <<0, 0, 0>>}

\* the constructor called for the base parameters of an optimizer
ConstructBaseline ==
    ConstructFrom(BaselineSegments, {DefaultJerkLimit}, {DefaultAccelerationLimit},
                  TightVelocityLimits)

\* MotionOptimizer(params).optimize(bounds, objective_type, method)
Optimize ==
    /\ exists
    /\ run.phase = "idle"
    /\ \E bounds \in SuppliedBounds \cup {NoBounds},
          objective_type \in ObjectiveTypes :
          run' \in OptimizeCalls(params, bounds, objective_type)
    /\ UNCHANGED <<attempt, outcome, exists, params, validated, assigned, law,
                   out, prev, doc, loaded, analysis, result, rerun, pool>>

\* the same optimizer called once more with the arguments of the first
\* call.  The objective is a function of the base parameters, the point and
\* the objective type, so its values are those of the first call.
OptimizeAgain ==
    /\ exists
    /\ run.phase # "idle"
    /\ rerun.phase = "idle"
    /\ rerun' \in {r \in OptimizeCallsOver(params, run.bounds, run.objective_type,
                                          {run.method}, run.objective) :
                     r.x # << >> => r.np = run.np}
    /\ UNCHANGED <<attempt, outcome, exists, params, validated, assigned, law,
                   out, prev, doc, loaded, analysis, result, run, pool>>

----------------------------------------------------------------------------
(* objective_function evaluated by several threads at once.  A call is     *)
(* followed through the statements of its try block: the candidate is      *)
(* built, its law built and analysed, the value computed and returned.     *)

\* vectors handed to the threads
PoolVectors == {<<10, 6, 6>>, <<5, 12, 12>>, <<10, 360, 6>>}

PoolObjectives == {"rms_acceleration", "max_jerk"}

\* locals kept in one place for every call, as an attribute of the optimizer
\* would be
frame_shared(w) == 1

\* where the locals of the call running on thread w live: in that call's own
\* frame
frame_of(w) == w

\* thread w enters objective_function(x, objective_type); alone is the value
\* the call returns when nothing else runs
Call(w) ==
    /\ exists
    /\ pool.pc[w] = "idle"
    /\ \E x \in PoolVectors, objective_type \in PoolObjectives :
          pool' = [pool EXCEPT
                     !.pc[w] = "build", !.x[w] = x,
                     !.objective_type[w] = objective_type,
                     !.alone[w] = evaluation(params, x, objective_type).value]
    /\ UNCHANGED <<attempt, outcome, exists, params, validated, assigned, law,
                   out, prev, doc, loaded, analysis, result, run, rerun>>

\* candidate_params = MotionParameters(...)
Build(w) ==
    /\ pool.pc[w] = "build"
    /\ LET cand == candidate_of(params, pool.x[w][1], pool.x[w][2], pool.x[w][3])
       IN  pool' = [pool EXCEPT
                      !.pc[w] = "analyse",
                      !.locals[frame_of(w)].candidate_params = cand,
                      !.locals[frame_of(w)].built = validate(cand)]
    /\ UNCHANGED <<attempt, outcome, exists, params, validated, assigned, law,
                   out, prev, doc, loaded, analysis, result, run, rerun>>

\* motion_law = MotionLaw(candidate_params);
\* analysis = motion_law.analyze_kinematics()
AnalyseCandidate(w) ==
    /\ pool.pc[w] = "analyse"
    /\ LET cand == pool.locals[frame_of(w)].candidate_params
           ok   == /\ pool.locals[frame_of(w)].built = "ok"
                   /\ validate_parameters(cand, total_duration_of(cand)) = "ok"
       IN  pool' = [pool EXCEPT
                      !.pc[w] = "score",
                      !.locals[frame_of(w)].analysis =
                          IF ok THEN candidate_analysis(cand, TRUE)
                          ELSE NoAnalysis]
    /\ UNCHANGED <<attempt, outcome, exists, params, validated, assigned, law,
                   out, prev, doc, loaded, analysis, result, run, rerun>>

\* the objective and the penalty computed from analysis and returned, or
\* 1e6 returned by the except block
Score(w) ==
    /\ pool.pc[w] = "score"
    /\ LET l    == pool.locals[frame_of(w)]
           cand == l.candidate_params
       IN  pool' = [pool EXCEPT
                      !.pc[w] = "done",
                      !.returned[w] =
                          objective_function(
                              cand, l.built,
                              validate_parameters(cand, total_duration_of(cand)),
                              l.analysis, pool.objective_type[w]).value]
    /\ UNCHANGED <<attempt, outcome, exists, params, validated, assigned, law,
                   out, prev, doc, loaded, analysis, result, run, rerun>>

\* one step of one thread
Evaluations ==
    \E w \in Workers : Call(w) \/ Build(w) \/ AnalyseCandidate(w) \/ Score(w)

----------------------------------------------------------------------------
(* Specifications *)

\* the object's life: construction, attribute assignments, MotionLaw
\* construction
Next == Construct \/ SetField \/ NewLaw

Spec == Init /\ [][Next]_vars

\* the kinematics of a validated object whose fields are left alone
KinNext == Construct \/ NewLaw \/ Evaluate

KinSpec == Init /\ [][KinNext]_vars

\* a validated object written to text, the text edited, the text read back
SerNext == ConstructLimits \/ Serialize \/ Edit \/ Deserialize

SerSpec == Init /\ [][SerNext]_vars

\* a validated object analysed through its law and through the optimizer
OptNext == ConstructConstrained \/ NewLaw \/ Analyze \/ Objective

OptSpec == Init /\ [][OptNext]_vars

\* a validated object optimized, and optimized once more
RunNext == ConstructBaseline \/ Optimize \/ OptimizeAgain

RunSpec == Init /\ [][RunNext]_vars

\* a validated object whose optimizer's objective is evaluated by several
\* threads
PoolNext == ConstructBaseline \/ Evaluations

PoolSpec == Init /\ [][PoolNext]_vars

----------------------------------------------------------------------------
(* Properties of MotionParameters and of MotionLaw construction *)

\* C1: after a successful construction cam_duration is the sum of the rise,
\* dwell and fall durations the caller passed, whatever cam_duration the
\* caller passed.
C1_CamDurationDerived ==
    exists /\ assigned = 0 =>
        /\ params.cam_duration =
              attempt.rise_duration + attempt.dwell_duration + attempt.fall_duration
        /\ params.cam_duration =
              params.rise_duration + params.dwell_duration + params.fall_duration

\* a constructed object whose cam_duration differs from the one passed
C1_Witness ==
    exists /\ assigned = 0 /\ attempt.cam_duration # params.cam_duration

\* the arguments the claim calls infeasible
Infeasible(a) ==
    \/ a.base_circle_radius <= 0
    \/ a.max_lift <= 0
    \/ a.rpm <= 0
    \/ a.rise_duration < 0
    \/ a.dwell_duration < 0
    \/ a.fall_duration < 0
    \/ a.rise_duration + a.dwell_duration + a.fall_duration > 360

\* C2: a constructor call fails with a validation error and leaves no object
\* exactly when a radius, lift or rpm is <= 0, a segment duration is < 0 or
\* the segment sum exceeds 360; otherwise (a sum of exactly 360 included) it
\* succeeds.
C2_ValidationRejects ==
    outcome # "none" =>
        /\ Infeasible(attempt) => outcome # "ok" /\ ~exists
        /\ ~Infeasible(attempt) => outcome = "ok" /\ exists

\* a successful construction with a segment sum of exactly 360
C2_Witness ==
    /\ outcome = "ok"
    /\ exists
    /\ attempt.rise_duration + attempt.dwell_duration + attempt.fall_duration = 360

\* C3: a constructor call whose three segment durations are all 0, the
\* other arguments being valid, fails with a validation error.
C3_ZeroTotalRejected ==
    /\ outcome # "none"
    /\ attempt.rise_duration = 0
    /\ attempt.dwell_duration = 0
    /\ attempt.fall_duration = 0
    /\ attempt.base_circle_radius > 0
    /\ attempt.max_lift > 0
    /\ attempt.rpm > 0
    => outcome # "ok" /\ ~exists

\* C4: every field of an existing object keeps the value it had when
\* validation passed.
C4_Immutable == exists => params = validated

\* the parameter invariants a MotionLaw must insist on
LawFeasible(p) ==
    /\ p.max_lift > 0
    /\ p.base_circle_radius > 0
    /\ p.rpm > 0
    /\ p.rise_duration >= 0
    /\ p.dwell_duration >= 0
    /\ p.fall_duration >= 0
    /\ p.rise_duration + p.dwell_duration + p.fall_duration > 0
    /\ p.rise_duration + p.dwell_duration + p.fall_duration <= 360

\* C5: constructing a MotionLaw succeeds exactly when the fields it reads
\* satisfy the parameter invariants, the sum being that of the three segment
\* durations; otherwise it fails with a validation error, also for an object
\* whose fields were changed after construction.
C5_LawRevalidates ==
    law.st # "none" => (law.st = "ok" <=> LawFeasible(law.seen))

\* a MotionLaw refused for an object changed after construction, whose
\* stored cam_duration is still within (0, 360]
C5_Witness ==
    /\ law.st = "Total cam duration must not exceed 360 degrees"
    /\ assigned > 0
    /\ law.seen.cam_duration > 0
    /\ law.seen.cam_duration <= 360

----------------------------------------------------------------------------
(* Properties of the kinematic functions (KinSpec: the object is as          *)
(* validated, the law is the one built on it)                                *)

AllNum(o) ==
    o.s.st = "num" /\ o.v.st = "num" /\ o.a.st = "num" /\ o.j.st = "num"

\* the reduced angle of an evaluation
Reduced(o) == o.theta % 360

\* the evaluation lies in the rise segment [0, rise_duration]
SegRise(o) ==
    o.done /\ params.rise_duration > 0 /\ Reduced(o) <= params.rise_duration

\* the evaluation lies in the fall segment (dwell_end, total_duration]
SegFall(o) ==
    /\ o.done
    /\ Reduced(o) > params.rise_duration + params.dwell_duration
    /\ Reduced(o) <= params.rise_duration + params.dwell_duration
                        + params.fall_duration

\* segment-local progress beta, in twelfths
RiseProgress(o) == (12 * Reduced(o)) \div params.rise_duration

FallProgress(o) ==
    (12 * (Reduced(o) - params.rise_duration - params.dwell_duration))
        \div params.fall_duration

\* the expression of a value, without its mantissa
Expr(t) == [c0 |-> t.c0, c |-> t.c, f |-> t.f, p |-> t.p, k |-> t.k,
            w |-> t.w, d |-> t.d]

\* the time derivative of  c0 + c * F(beta) * pi^p * (1/d)^k * W^w,  where
\* beta = theta/d and d(theta)/dt = W:  c * F'(beta) * pi^p * (1/d)^(k+1) * W^(w+1)
\*   (beta - sin(2 pi beta)/(2 pi))' = 1 - cos(2 pi beta)
\*   (1 - cos(2 pi beta))'           = 2 pi sin(2 pi beta)
\*   sin(2 pi beta)'                 = 2 pi cos(2 pi beta)
\*   cos(2 pi beta)'                 = - 2 pi sin(2 pi beta)
Deriv(e) ==
    CASE e.f = "betasin" ->
            [c0 |-> 0, c |-> e.c, f |-> "onemcos", p |-> e.p,
             k |-> e.k + 1, w |-> e.w + 1, d |-> e.d]
      [] e.f = "onemcos" ->
            [c0 |-> 0, c |-> 2 * e.c, f |-> "sin", p |-> e.p + 1,
             k |-> e.k + 1, w |-> e.w + 1, d |-> e.d]
      [] e.f = "sin" ->
            [c0 |-> 0, c |-> 2 * e.c, f |-> "cos", p |-> e.p + 1,
             k |-> e.k + 1, w |-> e.w + 1, d |-> e.d]
      [] e.f = "cos" ->
            [c0 |-> 0, c |-> 0 - (2 * e.c), f |-> "sin", p |-> e.p + 1,
             k |-> e.k + 1, w |-> e.w + 1, d |-> e.d]
      [] OTHER -> Expr(Zero)

\* C6: for a validated object, a zero rise or fall duration included, the
\* four functions return a defined number at every cam angle.
C6_AlwaysDefined ==
    out.done /\ outcome = "ok" /\ assigned = 0 => AllNum(out)

\* the two evaluations lie in the same half of the fall segment, where the
\* fall velocity is monotonic, prev before out
SameFallHalf ==
    /\ SegFall(prev) /\ SegFall(out)
    /\ FallProgress(prev) < FallProgress(out)
    /\ \/ FallProgress(out) <= 6
       \/ FallProgress(prev) >= 6

\* C7: in the rise and in the fall segment velocity is the time derivative
\* of displacement, acceleration that of velocity and jerk that of
\* acceleration; where the fall velocity decreases with the cam angle the
\* acceleration is <= 0, where it increases the acceleration is >= 0.
C7_Derivatives ==
    /\ (SegRise(out) \/ SegFall(out)) /\ AllNum(out) =>
          /\ Expr(out.v) = Deriv(Expr(out.s))
          /\ Expr(out.a) = Deriv(Expr(out.v))
          /\ Expr(out.j) = Deriv(Expr(out.a))
    /\ SameFallHalf /\ AllNum(out) /\ AllNum(prev) =>
          /\ out.v.m < prev.v.m => out.a.m <= 0 /\ prev.a.m <= 0
          /\ out.v.m > prev.v.m => out.a.m >= 0 /\ prev.a.m >= 0

\* C8: velocity, acceleration and jerk are the closed forms
\*   rise:  L k (1 - cos) W,   L k^2 2 pi sin W^2,   L k^3 4 pi^2 cos W^3
\*   fall: -L k (1 - cos) W,   L k^2 2 pi sin W^2,  -L k^3 4 pi^2 cos W^3
\* (L = max_lift, k = 1/segment_duration, W = omega * pi/180), so that at
\* the same progress beta the fall velocity and jerk expressions are the
\* negated rise ones and the acceleration expressions agree, and each order
\* carries one more factor W and one more factor k than the one before.
C8_SignConventions ==
    /\ SegRise(out) /\ AllNum(out) =>
          /\ Expr(out.v) = [c0 |-> 0, c |-> params.max_lift, f |-> "onemcos",
                            p |-> 0, k |-> 1, w |-> 1, d |-> params.rise_duration]
          /\ Expr(out.a) = [c0 |-> 0, c |-> 2 * params.max_lift, f |-> "sin",
                            p |-> 1, k |-> 2, w |-> 2, d |-> params.rise_duration]
          /\ Expr(out.j) = [c0 |-> 0, c |-> 4 * params.max_lift, f |-> "cos",
                            p |-> 2, k |-> 3, w |-> 3, d |-> params.rise_duration]
    /\ SegFall(out) /\ AllNum(out) =>
          /\ Expr(out.v) = [c0 |-> 0, c |-> 0 - params.max_lift, f |-> "onemcos",
                            p |-> 0, k |-> 1, w |-> 1, d |-> params.fall_duration]
          /\ Expr(out.a) = [c0 |-> 0, c |-> 2 * params.max_lift, f |-> "sin",
                            p |-> 1, k |-> 2, w |-> 2, d |-> params.fall_duration]
          /\ Expr(out.j) = [c0 |-> 0, c |-> 0 - (4 * params.max_lift), f |-> "cos",
                            p |-> 2, k |-> 3, w |-> 3, d |-> params.fall_duration]
    /\ (SegRise(out) \/ SegFall(out)) /\ AllNum(out) =>
          /\ out.v.k = out.s.k + 1 /\ out.v.w = out.s.w + 1
          /\ out.a.k = out.v.k + 1 /\ out.a.w = out.v.w + 1
          /\ out.j.k = out.a.k + 1 /\ out.j.w = out.a.w + 1
    /\ /\ SegRise(prev) /\ SegFall(out) /\ AllNum(prev) /\ AllNum(out)
       /\ RiseProgress(prev) = FallProgress(out)
       => /\ out.v.m = 0 - prev.v.m
          /\ out.a.m = prev.a.m
          /\ out.j.m = 0 - prev.j.m

\* a rise and a fall evaluation at the same progress, where none of
\* velocity, acceleration and jerk vanishes
C8_Witness ==
    /\ SegRise(prev) /\ SegFall(out) /\ AllNum(prev) /\ AllNum(out)
    /\ RiseProgress(prev) = FallProgress(out)
    /\ out.v.m # 0 /\ out.a.m # 0 /\ out.j.m # 0

\* C9: with rise_duration = fall_duration > 0, at a rise angle theta and the
\* mirrored fall angle total_duration - theta, acceleration has the same
\* sign and magnitude and velocity the same magnitude and opposite sign.
C9_MirrorSymmetry ==
    /\ params.rise_duration = params.fall_duration
    /\ SegRise(prev) /\ SegFall(out)
    /\ Reduced(out) = params.rise_duration + params.dwell_duration
                         + params.fall_duration - Reduced(prev)
    => /\ AllNum(prev) /\ AllNum(out)
       /\ out.a.m = prev.a.m
       /\ out.v.m = 0 - prev.v.m

\* C10: at theta = rise_duration (taken below 360, so that the angle is its
\* own reduction) displacement is max_lift and velocity and acceleration
\* are 0; towards the dwell end from inside the fall segment (the fall
\* expressions at beta = 0) displacement tends to max_lift and velocity and
\* acceleration to 0.
C10_BoundaryContinuity ==
    /\ /\ out.done /\ outcome = "ok" /\ assigned = 0
       /\ params.rise_duration < 360
       /\ out.theta = params.rise_duration
       => /\ out.s.st = "num" /\ out.s.m = params.max_lift * 1200000
          /\ out.v.st = "num" /\ out.v.m = 0
          /\ out.a.st = "num" /\ out.a.m = 0
    /\ SegFall(out) /\ AllNum(out) =>
          /\ Mantissa(out.s.c0, out.s.c, out.s.f, 0) = params.max_lift * 1200000
          /\ Mantissa(out.v.c0, out.v.c, out.v.f, 0) = 0
          /\ Mantissa(out.a.c0, out.a.c, out.a.f, 0) = 0

\* the reduced angle lies strictly inside the dwell segment
InsideDwell(o) ==
    /\ o.done
    /\ Reduced(o) > params.rise_duration
    /\ Reduced(o) < params.rise_duration + params.dwell_duration

\* C11: at every reduced cam angle strictly between rise_duration and
\* rise_duration + dwell_duration, displacement is exactly max_lift and
\* velocity, acceleration and jerk are exactly 0.
C11_DwellExact ==
    InsideDwell(out) /\ outcome = "ok" =>
        /\ out.s.st = "num" /\ out.s.m = params.max_lift * 1200000
        /\ out.v.st = "num" /\ out.v.m = 0
        /\ out.a.st = "num" /\ out.a.m = 0
        /\ out.j.st = "num" /\ out.j.m = 0

\* an evaluation inside the dwell of a profile that also rises and falls
C11_Witness ==
    /\ InsideDwell(out)
    /\ params.rise_duration > 0
    /\ params.fall_duration > 0
    /\ out.s.m = params.max_lift * 1200000

\* the 25 / 10 / 90 / 45 / 90 / 3000 profile
Scenario1 ==
    /\ params.base_circle_radius = 25 /\ params.max_lift = 10
    /\ params.rise_duration = 90 /\ params.dwell_duration = 45
    /\ params.fall_duration = 90 /\ params.rpm = 3000

\* C12: for a valid profile with positive rise and fall durations,
\* displacement is 0 at theta = 0, max_lift at theta = rise_duration and at
\* theta = rise_duration + dwell_duration, and 0 at theta = total_duration;
\* below 360 the upper edge of the rise is evaluated by the rise expression
\* and that of the fall by the fall expression.  For the 25/10/90/45/90/3000
\* profile: displacement(0) = 0, (90) = 10, (135) = 10, (225) = 0.
C12_SegmentEnds ==
    /\ /\ out.done /\ outcome = "ok"
       /\ params.rise_duration > 0 /\ params.fall_duration > 0
       => /\ out.s.st = "num"
          /\ out.theta = 0 => out.s.m = 0
          /\ out.theta = params.rise_duration =>
                out.s.m = params.max_lift * 1200000
          /\ out.theta = params.rise_duration + params.dwell_duration =>
                out.s.m = params.max_lift * 1200000
          /\ out.theta = law.total_duration => out.s.m = 0
          /\ out.theta = params.rise_duration /\ out.theta < 360 =>
                out.s.f = "betasin" /\ out.s.c0 = 0
                   /\ out.s.d = params.rise_duration
          /\ out.theta = law.total_duration /\ out.theta < 360 =>
                out.s.f = "betasin" /\ out.s.c0 = params.max_lift
                   /\ out.s.d = params.fall_duration
    /\ out.done /\ outcome = "ok" /\ Scenario1 =>
          /\ out.theta = 0 => out.s.m = 0
          /\ out.theta = 90 => out.s.m = 10 * 1200000
          /\ out.theta = 135 => out.s.m = 10 * 1200000
          /\ out.theta = 225 => out.s.m = 0

\* the 90/45/90 profile evaluated at the dwell end and then at the fall end
C12_Witness ==
    /\ Scenario1
    /\ prev.done /\ prev.theta = 135 /\ prev.s.m = 10 * 1200000
    /\ out.done /\ out.theta = 225 /\ out.s.m = 0 /\ out.s.c0 = 10

\* two results agree: both are defined and equal, or neither is defined
Agree(x, y) ==
    /\ x.st = "num" <=> y.st = "num"
    /\ x.st = "num" => x = y

\* C13: the four functions are periodic in the cam angle with period 360:
\* at theta and theta + 360 k, negative angles included, displacement,
\* velocity, acceleration and jerk agree.
C13_Periodic ==
    /\ out.done /\ prev.done
    /\ (out.theta - prev.theta) % 360 = 0
    => /\ Agree(out.s, prev.s)
       /\ Agree(out.v, prev.v)
       /\ Agree(out.a, prev.a)
       /\ Agree(out.j, prev.j)

\* a negative angle and the angle two turns later, inside a rise or fall
\* segment, where displacement, velocity and jerk are not 0
C13_Witness ==
    /\ prev.done /\ prev.theta = -354
    /\ out.done /\ out.theta = 366
    /\ out.s.m # 0 /\ out.v.m # 0 /\ out.j.m # 0

\* C14: for a validated profile and every cam angle,
\* 0 <= displacement(theta) <= max_lift.
C14_Bounded ==
    out.done /\ outcome = "ok" =>
        /\ out.s.st = "num"
        /\ out.s.m >= 0
        /\ out.s.m <= params.max_lift * 1200000

----------------------------------------------------------------------------
(* Properties of serialization (SerSpec)                                    *)

\* C15: reading back the JSON or the TOML text of a valid object succeeds
\* and gives an object equal to it field for field, cam_duration (the
\* segment sum) included; the text carries a key for each of the ten fields.
C15_RoundTrip ==
    loaded.st # "none" /\ ~doc.edited =>
        /\ \A k \in FieldNames : doc.body[k].form # "absent"
        /\ loaded.st = "ok"
        /\ \A k \in FieldNames : loaded.obj[k] = Num(params[k])
        /\ loaded.obj["cam_duration"] = Num(SegmentSum(params))

\* the document is one its decoder accepts
WellFormed(d) ==
    IF d.fmt = "toml" THEN toml_loads(d.body).ok ELSE json_loads(d.body).ok

\* the mandatory fields that are absent from the document or hold a quoted
\* string or a boolean
Offending(d) ==
    {k \in RequiredSet :
        \/ d.body[k].form \in {"absent", "quoted"}
        \/ d.body[k].form = "word" /\ d.body[k].word \in {"true", "false"}}

\* C16: reading a well-formed document in which a mandatory field is absent
\* or holds a quoted string or a boolean fails in _validate_data, before an
\* object is constructed, with an error that names such a field.
C16_FieldsChecked ==
    loaded.st # "none" /\ WellFormed(doc) /\ Offending(doc) # {} =>
        /\ loaded.st = "error"
        /\ loaded.stage = "_validate_data"
        /\ loaded.field \in Offending(doc)

\* C17: reading a malformed document fails in the decoder, before the
\* fields are validated, with an error kind that differs from the kind of a
\* missing or mistyped field and from the kind of infeasible parameters.
C17_ParseErrorKind ==
    loaded.st # "none" /\ ~WellFormed(doc) =>
        /\ loaded.st = "error"
        /\ loaded.stage = "loads"
        /\ loaded.exc # FieldErrorKind
        /\ loaded.exc # InfeasibleErrorKind

----------------------------------------------------------------------------
(* Properties of analyze_kinematics and objective_function (OptSpec)        *)

\* the samples are evenly spaced from 0 to total inclusive
EvenlySpaced(theta, total) ==
    /\ theta[1] = 0
    /\ theta[Len(theta)] = total
    /\ \A i \in 2..Len(theta) : theta[i] - theta[i - 1] = theta[2] - theta[1]

\* C18: analyze_kinematics with n >= 1 points completes without error for
\* every valid law; its theta, displacement, velocity, acceleration and jerk
\* arrays have length n, theta is evenly spaced from 0 to total_duration
\* inclusive, and each violation flag is set exactly when the maximum
\* magnitude is strictly greater than its limit.
C18_AnalysisComplete ==
    analysis.done /\ analysis.n >= 1 =>
        /\ analysis.st = "ok"
        /\ Len(analysis.theta) = analysis.n
        /\ Len(analysis.displacement) = analysis.n
        /\ Len(analysis.velocity) = analysis.n
        /\ Len(analysis.acceleration) = analysis.n
        /\ Len(analysis.jerk) = analysis.n
        /\ analysis.n >= 2 =>
              EvenlySpaced(analysis.theta,
                           total_duration_of(analysis.parameters))
        /\ analysis.velocity_violation <=>
              ~analysis.nan /\ analysis.max_velocity
                                 > analysis.parameters.velocity_limit * 100
        /\ analysis.acceleration_violation <=>
              ~analysis.nan /\ analysis.max_acceleration
                                 > analysis.parameters.acceleration_limit * 100
        /\ analysis.jerk_violation <=>
              ~analysis.nan /\ analysis.max_jerk
                                 > analysis.parameters.jerk_limit * 100

\* what the two constructors raise for an infeasible candidate
ValidationCauses == {"MotionParameters", "MotionLaw"}

\* C19: objective_function turns a validation error of the candidate into
\* the value 1e6, and lets every other error (an unknown objective type,
\* for one) propagate to the caller.
C19_OnlyValidationMasked ==
    result.done =>
        /\ result.cause \in ValidationCauses =>
              result.st = "returned" /\ result.value = FailureValue * 100
        /\ result.cause \notin ValidationCauses \cup {"none"} =>
              result.st = "raised"

\* the base term of the claim, in hundredths
ClaimedBase ==
    CASE result.objective_type = "rms_acceleration" -> analysis.rms_acceleration
      [] result.objective_type = "max_jerk" -> analysis.max_jerk
      [] OTHER -> (analysis.rms_acceleration * analysis.rms_acceleration) \div 100

\* 1000 * (maximum - limit) over the constraints whose maximum exceeds the
\* limit
ClaimedPenalty ==
    LET over(mx, limit) == IF mx > limit * 100 THEN 1000 * (mx - limit * 100) ELSE 0
    IN    over(analysis.max_velocity, result.candidate.velocity_limit)
        + over(analysis.max_acceleration, result.candidate.acceleration_limit)
        + over(analysis.max_jerk, result.candidate.jerk_limit)

\* the candidate passed both validations
CandidateValid ==
    /\ validate(result.candidate) = "ok"
    /\ validate_parameters(result.candidate,
                           total_duration_of(result.candidate)) = "ok"

\* C20: for a candidate that passes validation and one of the three
\* objective types, objective_function returns base + penalty: base is
\* rms_acceleration, max |jerk| or rms_acceleration^2, and penalty is the sum
\* of 1000 * (maximum - limit) over the violated constraints, never negative.
C20_ObjectiveValue ==
    result.done /\ CandidateValid /\ result.objective_type \in ObjectiveTypes =>
        /\ result.st = "returned"
        /\ result.cause = "none"
        /\ ~result.nan => /\ result.value = ClaimedBase + ClaimedPenalty
                          /\ ClaimedPenalty >= 0

\* the reduced angle lies strictly between total_duration and 360
BeyondSegments(o) ==
    /\ o.done
    /\ law.total_duration < 360
    /\ Reduced(o) > law.total_duration
    /\ Reduced(o) < 360

\* C29: for a valid profile whose total_duration is below 360, at every
\* reduced cam angle strictly between total_duration and 360 displacement,
\* velocity, acceleration and jerk are exactly 0.
C29_RestBeyondSegments ==
    BeyondSegments(out) /\ outcome = "ok" =>
        /\ out.s.st = "num" /\ out.s.m = 0
        /\ out.v.st = "num" /\ out.v.m = 0
        /\ out.a.st = "num" /\ out.a.m = 0
        /\ out.j.st = "num" /\ out.j.m = 0

\* an evaluation past the end of a profile that rises, dwells and falls,
\* after an evaluation inside its fall where the follower is displaced
C29_Witness ==
    /\ BeyondSegments(out)
    /\ params.rise_duration > 0 /\ params.dwell_duration > 0
    /\ params.fall_duration > 0
    /\ out.s = Zero /\ out.j = Zero
    /\ prev.done /\ prev.s.m # 0

----------------------------------------------------------------------------
(* Properties of MotionOptimizer.optimize *)

\* the vector x lies in the box
InBox(x, box) == \A i \in 1..3 : box[i][1] <= x[i] /\ x[i] <= box[i][2]

\* the box a call is meant to search: the one supplied, or the default one
\* when none is supplied
MeantBox(r) == IF r.bounds = NoBounds THEN DefaultBounds ELSE r.bounds

\* the three searched fields of a parameter set
Searched(p) == <<p.max_lift, p.rise_duration, p.fall_duration>>

\* C21: every vector on which optimize evaluates the objective lies inside
\* the box, for both methods, 'minimize' being started from the base
\* parameters' own values even when these lie outside the box; and the
\* returned optimized (max_lift, rise_duration, fall_duration) lies inside
\* the box.
C21_SearchContained ==
    /\ \A x \in run.evaluated : InBox(x, MeantBox(run))
    /\ run.phase = "returned" =>
          InBox(Searched(run.optimized_parameters), MeantBox(run))

\* a minimize call whose base parameters lie outside the supplied box, which
\* has tried several points and has returned
C21_Witness ==
    /\ run.phase = "returned"
    /\ run.method = "minimize"
    /\ run.bounds # NoBounds
    /\ ~InBox(run.x0, run.bounds)
    /\ Cardinality(run.evaluated) > 1

\* C22: optimizing 'rms_acceleration' from valid base parameters with a box
\* that contains them, the returned objective_value is never greater than
\* the rms_acceleration of the base parameters, with either method.
C22_NoRegression ==
    /\ run.phase = "returned"
    /\ run.objective_type = "rms_acceleration"
    /\ InBox(run.x0, MeantBox(run))
    /\ ~run.base_analysis.nan
    => run.objective_value <= run.base_analysis.rms_acceleration

\* C23: the optimized parameters have the base parameters' base circle
\* radius, dwell duration, rpm and three limits; only max_lift,
\* rise_duration, fall_duration and the derived cam_duration may differ.
\* The base parameters are left as they were and are returned as
\* original_parameters.
C23_FrameKept ==
    /\ run.phase = "returned" =>
          /\ \A k \in {"base_circle_radius", "dwell_duration", "rpm",
                       "jerk_limit", "acceleration_limit", "velocity_limit"} :
                run.optimized_parameters[k] = validated[k]
          /\ run.optimized_parameters.cam_duration =
                SegmentSum(run.optimized_parameters)
          /\ run.original_parameters = validated
    /\ run.phase # "idle" => params = validated

\* a returned optimum with another lift than the base parameters, whose
\* dwell duration and velocity limit are not the defaults
C23_Witness ==
    /\ run.phase = "returned"
    /\ run.optimized_parameters.max_lift # params.max_lift
    /\ params.dwell_duration = 6
    /\ params.velocity_limit = 0

\* C24: the improvement figures are those of the base parameters minus
\* those of the optimized parameters, so that a positive figure is an
\* improvement; both come from analyses made after the search, of the base
\* parameters and of the rebuilt optimum.
C24_ImprovementFigures ==
    run.phase = "returned" /\ ~run.improvement.nan =>
        /\ run.base_analysis.parameters = params
        /\ run.kinematic_analysis.parameters = run.optimized_parameters
        /\ run.improvement.rms_acceleration_reduction =
              run.base_analysis.rms_acceleration
                 - run.kinematic_analysis.rms_acceleration
        /\ run.improvement.max_jerk_reduction =
              run.base_analysis.max_jerk - run.kinematic_analysis.max_jerk
        /\ run.kinematic_analysis.rms_acceleration
              < run.base_analysis.rms_acceleration
              => run.improvement.rms_acceleration_reduction > 0

\* an optimum that lowers both the rms acceleration and the maximum jerk
C24_Witness ==
    /\ run.phase = "returned"
    /\ ~run.improvement.nan
    /\ run.improvement.rms_acceleration_reduction > 0
    /\ run.improvement.max_jerk_reduction > 0
    /\ run.kinematic_analysis.max_jerk < run.base_analysis.max_jerk

\* C25: the success flag, the message and the iteration count of a returned
\* result are those the method reported; when the method ends without
\* meeting its own criterion the result says success = false with the
\* method's message, never success = true.
C25_ReportPassedOn ==
    run.phase = "returned" =>
        /\ run.success = run.reported.success
        /\ run.message = run.reported.message
        /\ run.iterations = run.reported.nit
        /\ ~run.reported.success =>
              /\ ~run.success
              /\ run.message = "Maximum number of iterations has been exceeded."

\* a returned result of a search that used up its iterations
C25_Witness ==
    /\ run.phase = "returned"
    /\ ~run.reported.success
    /\ run.iterations = 100

\* the two calls went the same way; the state of the process's generator is
\* not part of the comparison
SameRun(r1, r2) == [r1 EXCEPT !.entropy = 0] = [r2 EXCEPT !.entropy = 0]

\* C26: two optimize calls with the same base parameters, box, objective
\* and method give the same result; differential_evolution is always run
\* with seed 42, popsize 15 and maxiter 100.
C26_Deterministic ==
    /\ run.method = "differential_evolution" /\ run.x # << >> =>
          run.seed = 42 /\ run.popsize = 15 /\ run.maxiter = 100
    /\ rerun.phase # "idle" => SameRun(rerun, run)

\* two differential_evolution calls made in different states of the
\* process's generator, over a box with several points, both returned
C26_Witness ==
    /\ run.phase = "returned" /\ rerun.phase = "returned"
    /\ run.method = "differential_evolution"
    /\ run.entropy # rerun.entropy
    /\ Cardinality(run.evaluated) > 1
    /\ rerun.x = run.x

\* the best vector found does not make valid parameters
WinnerInvalid(r) ==
    /\ r.x # << >>
    /\ LET cand == candidate_of(validated, r.x[1], r.x[2], r.x[3])
       IN  \/ validate(cand) # "ok"
           \/ validate_parameters(cand, total_duration_of(cand)) # "ok"

\* C30: the optimized parameters of a returned result pass validation
\* (0 < rise + dwell + fall <= 360 and the rest); when the best vector found
\* does not, optimize raises the validation error of the rebuild instead of
\* returning, also when the method reported success.
C30_WinnerValidated ==
    /\ run.phase = "returned" =>
          /\ validate(run.optimized_parameters) = "ok"
          /\ SegmentSum(run.optimized_parameters) > 0
          /\ SegmentSum(run.optimized_parameters) <= 360
          /\ ~WinnerInvalid(run)
    /\ WinnerInvalid(run) => run.phase = "raised" /\ run.exc = "ValueError"

\* a search in which every vector scored 1e6, which the method reported as
\* a success, and whose rebuild raised
C30_Witness ==
    /\ WinnerInvalid(run)
    /\ run.reported.success
    /\ run.phase = "raised"
    /\ run.evaluated # {}

\* C27: objective evaluations may interleave in any order: an evaluation
\* writes no state that another one reads, each returns the value the same
\* call returns when run alone, and the base parameters stay as they were.
C27_EvaluationsIndependent ==
    /\ \A w \in Workers :
          /\ pool.pc[w] = "done" => pool.returned[w] = pool.alone[w]
          /\ pool.pc[w] \in {"analyse", "score"} =>
                Searched(pool.locals[w].candidate_params) = pool.x[w]
    /\ params = validated
    /\ run = NoRun /\ result = NoResult /\ analysis = NoAnalysis

\* two calls with different vectors, the second entered and finished while
\* the first was between building its candidate and analysing it
C27_Witness ==
    /\ pool.pc[1] = "analyse" /\ pool.pc[2] = "done"
    /\ pool.x[1] # pool.x[2]
    /\ pool.returned[2] # FailureValue * 100
    /\ pool.locals[1].analysis = NoAnalysis
====
